---- MODULE Spec2Model ----
(***************************************************************************)
(* Elixir 1.0.0 (src/elixir.cpp): critical-path scheduling of a task list. *)
(* The state is the vector<Task> that main() owns plus the position of     *)
(* main(); every function main() calls is one action.  The recursive       *)
(* scores are operators that follow the C++ recursion call by call,        *)
(* counting calls and stopping at the first exception or at stack          *)
(* exhaustion.                                                             *)
(*                                                                         *)
(* tasks        the vector<Task> of main()                                 *)
(* pc           the statement main() executes next, or how the process     *)
(*              ended: "exit" (return 0), "terminate" (uncaught            *)
(*              runtime_error), "stack_overflow"                           *)
(* err          what ended the process abnormally                          *)
(* outputCsv    the task rows written to output.csv                        *)
(* timelineCsv  the task rows written to timeline.csv                      *)
(* evalsES      calls of getEarlyStartScore made by updateAllEarlyVars     *)
(* evalsLF      calls of getLateFinishScore made by updateAllLateVars      *)
(*                                                                         *)
(* The files are taken to open; the header rows, which do not depend on    *)
(* the schedule beyond the project length, are left out of the rows.       *)
(***************************************************************************)
EXTENDS Integers, Sequences, FiniteSets, TLC

VARIABLES tasks, pc, err, outputCsv, timelineCsv, evalsES, evalsLF

vars == <<tasks, pc, err, outputCsv, timelineCsv, evalsES, evalsLF>>

----------------------------------------------------------------------------
(* Bounds of the model: records of a valid input, largest duration,        *)
(* records of an arbitrary input.                                          *)

MaxTasks == 3
MaxDur == 1
MaxRecords == 2

(* int LF = INT_MAX; *)
INT_MAX == 2147483647

(* Task names of the inputs, and a name that no record has. *)
NameOf == <<"a", "b", "c", "d", "e", "f">>
Ghost == "z"

----------------------------------------------------------------------------
(* struct Task.  ES, EF, LS, LF and slack are left uninitialised by the    *)
(* constructor; `assigned' records which of them have been written.  A     *)
(* pass that returns has written its fields of every record, and main()    *)
(* reads a field only after the pass that writes it, so the placeholder 0  *)
(* of an unwritten field is never read.                                    *)

Task(taskName, taskDuration, deps) ==
    [name |-> taskName, duration |-> taskDuration, dependencies |-> deps,
     successors |-> <<>>,
     ES |-> 0, EF |-> 0, LS |-> 0, LF |-> 0, slack |-> 0,
     assigned |-> {}]

(* Index of the first record named `name', 0 when the scan falls through   *)
(* to the throw.                                                           *)
getTaskFromList(name, taskList) ==
    IF \E i \in 1..Len(taskList) : taskList[i].name = name
    THEN CHOOSE i \in 1..Len(taskList) :
            /\ taskList[i].name = name
            /\ \A j \in 1..(i - 1) : taskList[j].name # name
    ELSE 0

getTaskObjectFromList(name, taskList) == getTaskFromList(name, taskList)

(* The value of a one-element set; {e(x) : x \in {v}} evaluates v once     *)
(* before e uses it.                                                       *)
Only(S) == CHOOSE x \in S : TRUE

(* Outcomes of a call: it returns a value, it throws runtime_error, or the *)
(* recursion exhausts the stack.                                           *)
Returned(v, calls) == [st |-> "returned", v |-> v, calls |-> calls, name |-> ""]
Thrown(name, calls) == [st |-> "thrown", v |-> 0, calls |-> calls, name |-> name]
Exhausted(calls) == [st |-> "exhausted", v |-> 0, calls |-> calls, name |-> ""]

----------------------------------------------------------------------------
(* Forward pass *)

UpdateES_last(ES, depEF) == depEF

(* if (depEF > ES) ES = depEF; *)
UpdateES(ES, depEF) == IF depEF > ES THEN depEF ELSE ES

RECURSIVE getEarlyStartScore(_, _, _)
RECURSIVE EarlyDepLoop(_, _, _, _, _, _)

(* The for loop of getEarlyStartScore from its k-th dependency on: j is    *)
(* the record getTaskFromList finds, r the outcome of the recursive call,  *)
(* a the new <<ES, calls>>.                                                *)
EarlyDepLoop(task, taskList, depth, k, ES, calls) ==
    IF k > Len(task.dependencies) THEN Returned(ES, calls)
    ELSE Only({
           IF j = 0 THEN Thrown(task.dependencies[k], calls)
           ELSE Only({
                  IF r.st # "returned"
                  THEN [r EXCEPT !.calls = calls + r.calls]
                  ELSE Only({EarlyDepLoop(task, taskList, depth, k + 1,
                                          a[1], a[2]) :
                             a \in {<<UpdateES(ES, r.v + taskList[j].duration),
                                      calls + r.calls>>}}) :
                  r \in {getEarlyStartScore(taskList[j], taskList, depth + 1)}}) :
           j \in {getTaskFromList(task.dependencies[k], taskList)}})

(* depth is the number of getEarlyStartScore frames on the stack.  More    *)
(* frames than records means some record is on the stack twice, so the     *)
(* recursion never returns and the stack is exhausted.                     *)
getEarlyStartScore(task, taskList, depth) ==
    IF depth > Len(taskList) THEN Exhausted(1)
    ELSE IF task.dependencies = <<>> THEN Returned(0, 1)
    ELSE EarlyDepLoop(task, taskList, depth, 1, 0, 1)

RECURSIVE EarlyVarsLoop(_, _, _)
(* The for loop of updateAllEarlyVars from task i on; an exception or a    *)
(* crash leaves the tasks before i assigned.                               *)
EarlyVarsLoop(taskList, i, calls) ==
    IF i > Len(taskList)
    THEN [st |-> "returned", tasks |-> taskList, calls |-> calls, name |-> ""]
    ELSE Only({
           IF r.st # "returned"
           THEN [st |-> r.st, tasks |-> taskList, calls |-> calls + r.calls,
                 name |-> r.name]
           ELSE Only({EarlyVarsLoop(a[1], i + 1, a[2]) :
                      a \in {<<[taskList EXCEPT
                                  ![i].ES = r.v,
                                  ![i].EF = r.v + taskList[i].duration,
                                  ![i].assigned = @ \cup {"ES", "EF"}],
                               calls + r.calls>>}}) :
           r \in {getEarlyStartScore(taskList[i], taskList, 1)}})

updateAllEarlyVars(taskList) == EarlyVarsLoop(taskList, 1, 0)

----------------------------------------------------------------------------
(* Successors *)

RECURSIVE PopulateLoop(_, _, _)
(* Both for loops of populateSuccessors, at task i and its k-th dependency *)
PopulateLoop(taskList, i, k) ==
    IF i > Len(taskList)
    THEN [st |-> "returned", tasks |-> taskList, calls |-> 0, name |-> ""]
    ELSE IF k > Len(taskList[i].dependencies)
    THEN PopulateLoop(taskList, i + 1, 1)
    ELSE Only({
         IF j = 0
         THEN [st |-> "thrown", tasks |-> taskList, calls |-> 0,
               name |-> taskList[i].dependencies[k]]
         ELSE Only({PopulateLoop(l, i, k + 1) :
                    l \in {[taskList EXCEPT ![j].successors =
                                              Append(@, taskList[i].name)]}}) :
         j \in {getTaskObjectFromList(taskList[i].dependencies[k], taskList)}})

populateSuccessors(taskList) == PopulateLoop(taskList, 1, 1)

----------------------------------------------------------------------------
(* Backward pass *)

LeafLateFinish_ES(task) == task.ES

(* if (task.successors.empty()) return task.EF; *)
LeafLateFinish(task) == task.EF

UpdateLF_max(LF, sLS) == IF sLS > LF THEN sLS ELSE LF

(* if (sLS < LF) LF = sLS; *)
UpdateLF(LF, sLS) == IF sLS < LF THEN sLS ELSE LF

RECURSIVE getLateFinishScore(_, _, _)
RECURSIVE LateSuccLoop(_, _, _, _, _, _)

(* The for loop of getLateFinishScore from its k-th successor on. *)
LateSuccLoop(task, taskList, depth, k, LF, calls) ==
    IF k > Len(task.successors) THEN Returned(LF, calls)
    ELSE Only({
           IF j = 0 THEN Thrown(task.successors[k], calls)
           ELSE Only({
                  IF r.st # "returned"
                  THEN [r EXCEPT !.calls = calls + r.calls]
                  ELSE Only({LateSuccLoop(task, taskList, depth, k + 1,
                                          a[1], a[2]) :
                             a \in {<<UpdateLF(LF, r.v - taskList[j].duration),
                                      calls + r.calls>>}}) :
                  r \in {getLateFinishScore(taskList[j], taskList, depth + 1)}}) :
           j \in {getTaskFromList(task.successors[k], taskList)}})

getLateFinishScore(task, taskList, depth) ==
    IF depth > Len(taskList) THEN Exhausted(1)
    ELSE IF task.successors = <<>> THEN Returned(LeafLateFinish(task), 1)
    ELSE LateSuccLoop(task, taskList, depth, 1, INT_MAX, 1)

RECURSIVE LateVarsLoop(_, _, _)
(* The for loop of updateAllLateVars from task i on. *)
LateVarsLoop(taskList, i, calls) ==
    IF i > Len(taskList)
    THEN [st |-> "returned", tasks |-> taskList, calls |-> calls, name |-> ""]
    ELSE Only({
           IF r.st # "returned"
           THEN [st |-> r.st, tasks |-> taskList, calls |-> calls + r.calls,
                 name |-> r.name]
           ELSE Only({LateVarsLoop(a[1], i + 1, a[2]) :
                      a \in {<<[taskList EXCEPT
                                  ![i].LF = r.v,
                                  ![i].LS = r.v - taskList[i].duration,
                                  ![i].assigned = @ \cup {"LS", "LF"}],
                               calls + r.calls>>}}) :
           r \in {getLateFinishScore(taskList[i], taskList, 1)}})

updateAllLateVars(taskList) == LateVarsLoop(taskList, 1, 0)

----------------------------------------------------------------------------
(* Slack *)

SlackOf_swapped(task) == task.ES - task.LS

(* task.slack = task.LS - task.ES; *)
SlackOf(task) == task.LS - task.ES

updateAllSlack(taskList) ==
    [i \in 1..Len(taskList) |->
        [taskList[i] EXCEPT !.slack = SlackOf(taskList[i]),
                            !.assigned = @ \cup {"slack"}]]

----------------------------------------------------------------------------
(* Output *)

(* The rows outputTaskCSV writes after the header. *)
outputTaskCSV(taskList) ==
    [i \in 1..Len(taskList) |->
        LET t == taskList[i]
        IN  <<t.name, t.duration, t.ES, t.EF, t.LS, t.LF, t.slack>>]

RECURSIVE ProjectLengthLoop(_, _, _)
ProjectLengthLoop(taskList, i, projectLength) ==
    IF i > Len(taskList) THEN projectLength
    ELSE ProjectLengthLoop(taskList, i + 1,
            IF taskList[i].EF > projectLength THEN taskList[i].EF
            ELSE projectLength)

(* int projectLength = 0; for (t : taskList) if (t.EF > projectLength) ... *)
ProjectLength(taskList) == ProjectLengthLoop(taskList, 1, 0)

TimelineCell(t, time) ==
    IF time >= t.ES /\ time < t.EF
    THEN (IF t.slack = 0 THEN "C" ELSE "X")
    ELSE "O"

(* The rows outputTimelineCSV writes after the header: name, then one cell *)
(* per time unit 0 .. projectLength-1.                                     *)
outputTimelineCSV(taskList) ==
    LET projectLength == ProjectLength(taskList)
    IN  [i \in 1..Len(taskList) |->
            <<taskList[i].name,
              [c \in 1..projectLength |-> TimelineCell(taskList[i], c - 1)]>>]

----------------------------------------------------------------------------
(* main *)

MainNext_lateFirst(stage) ==
    CASE stage = "loadCSV" -> "updateAllLateVars"
      [] stage = "updateAllLateVars" -> "populateSuccessors"
      [] stage = "populateSuccessors" -> "updateAllEarlyVars"
      [] stage = "updateAllEarlyVars" -> "updateAllSlack"
      [] stage = "updateAllSlack" -> "outputTaskCSV"
      [] stage = "outputTaskCSV" -> "outputTimelineCSV"
      [] stage = "outputTimelineCSV" -> "exit"

(* The statement of main() that follows `stage'. *)
MainNext(stage) ==
    CASE stage = "loadCSV" -> "updateAllEarlyVars"
      [] stage = "updateAllEarlyVars" -> "populateSuccessors"
      [] stage = "populateSuccessors" -> "updateAllLateVars"
      [] stage = "updateAllLateVars" -> "updateAllSlack"
      [] stage = "updateAllSlack" -> "outputTaskCSV"
      [] stage = "outputTaskCSV" -> "outputTimelineCSV"
      [] stage = "outputTimelineCSV" -> "exit"

(* err.names: the task names the error message contains. *)
NoError == [what |-> "", names |-> {}]

(* Where main() is after a call that ended with outcome r: the next        *)
(* statement, std::terminate for the uncaught runtime_error, or the crash  *)
(* of the exhausted stack.                                                 *)
After(stage, r) ==
    IF r.st = "returned" THEN MainNext(stage)
    ELSE IF r.st = "thrown" THEN "terminate"
    ELSE "stack_overflow"

ErrorOf(r) ==
    IF r.st = "thrown" THEN [what |-> "Task not found: ", names |-> {r.name}]
    ELSE IF r.st = "exhausted" THEN [what |-> "stack overflow", names |-> {}]
    ELSE NoError

UpdateAllEarlyVars ==
    /\ pc = "updateAllEarlyVars"
    /\ \E r \in {updateAllEarlyVars(tasks)} :
           /\ tasks' = r.tasks
           /\ evalsES' = r.calls
           /\ pc' = After("updateAllEarlyVars", r)
           /\ err' = ErrorOf(r)
    /\ UNCHANGED <<outputCsv, timelineCsv, evalsLF>>

PopulateSuccessors ==
    /\ pc = "populateSuccessors"
    /\ \E r \in {populateSuccessors(tasks)} :
           /\ tasks' = r.tasks
           /\ pc' = After("populateSuccessors", r)
           /\ err' = ErrorOf(r)
    /\ UNCHANGED <<outputCsv, timelineCsv, evalsES, evalsLF>>

UpdateAllLateVars ==
    /\ pc = "updateAllLateVars"
    /\ \E r \in {updateAllLateVars(tasks)} :
           /\ tasks' = r.tasks
           /\ evalsLF' = r.calls
           /\ pc' = After("updateAllLateVars", r)
           /\ err' = ErrorOf(r)
    /\ UNCHANGED <<outputCsv, timelineCsv, evalsES>>

UpdateAllSlack ==
    /\ pc = "updateAllSlack"
    /\ tasks' = updateAllSlack(tasks)
    /\ pc' = MainNext("updateAllSlack")
    /\ UNCHANGED <<err, outputCsv, timelineCsv, evalsES, evalsLF>>

OutputTaskCSV ==
    /\ pc = "outputTaskCSV"
    /\ outputCsv' = outputTaskCSV(tasks)
    /\ pc' = MainNext("outputTaskCSV")
    /\ UNCHANGED <<tasks, err, timelineCsv, evalsES, evalsLF>>

OutputTimelineCSV ==
    /\ pc = "outputTimelineCSV"
    /\ timelineCsv' = outputTimelineCSV(tasks)
    /\ pc' = MainNext("outputTimelineCSV")
    /\ UNCHANGED <<tasks, err, outputCsv, evalsES, evalsLF>>

Next ==
    \/ UpdateAllEarlyVars
    \/ PopulateSuccessors
    \/ UpdateAllLateVars
    \/ UpdateAllSlack
    \/ OutputTaskCSV
    \/ OutputTimelineCSV

----------------------------------------------------------------------------
(* Inputs: the vector<Task> loadCSV returns *)

Indices(taskList) == 1..Len(taskList)

(* The records a dependency list of task i resolves to. *)
DepIndices(taskList, i) ==
    {getTaskFromList(taskList[i].dependencies[k], taskList) :
        k \in 1..Len(taskList[i].dependencies)} \ {0}

(* <<j, m>>: record j is a dependency of record m. *)
Edges(taskList) ==
    UNION {{<<j, m>> : j \in DepIndices(taskList, m)} : m \in Indices(taskList)}

RECURSIVE Peels(_, _)
(* The dependency relation g has no cycle within S: some member of S has   *)
(* no dependency in S, and without those members S has no cycle either.    *)
Peels(g, S) ==
    IF S = {} THEN TRUE
    ELSE \E free \in {{i \in S : g[i] \cap S = {}}} :
            free # {} /\ Peels(g, S \ free)

UniqueNames(taskList) ==
    \A i, j \in Indices(taskList) :
        taskList[i].name = taskList[j].name => i = j

Resolves(taskList) ==
    \A i \in Indices(taskList) :
        \A k \in 1..Len(taskList[i].dependencies) :
            getTaskFromList(taskList[i].dependencies[k], taskList) # 0

Cyclic(taskList) ==
    \E E \in {Edges(taskList)} :
        ~Peels([i \in Indices(taskList) |-> {e[1] : e \in {d \in E : d[2] = i}}],
               Indices(taskList))

ValidDAG(taskList) ==
    /\ UniqueNames(taskList)
    /\ Resolves(taskList)
    /\ ~Cyclic(taskList)
    /\ \A i \in Indices(taskList) : taskList[i].duration >= 0

RECURSIVE SetToSeq(_)
(* The names of a set of records, in record order. *)
SetToSeq(S) ==
    IF S = {} THEN <<>>
    ELSE LET m == CHOOSE x \in S : \A y \in S : x <= y
         IN  <<NameOf[m]>> \o SetToSeq(S \ {m})

StartState(taskList) ==
    /\ tasks = taskList
    /\ pc = MainNext("loadCSV")
    /\ err = NoError
    /\ outputCsv = <<>>
    /\ timelineCsv = <<>>
    /\ evalsES = 0
    /\ evalsLF = 0

DAGs(n) ==
    {g \in [1..n -> SUBSET (1..n)] : Peels(g, 1..n)}

(* Valid inputs: n uniquely named records, an acyclic dependency relation  *)
(* over them, durations 0..MaxDur.                                         *)
InitDAG ==
    \E n \in 0..MaxTasks :
        \E g \in DAGs(n), d \in [1..n -> 0..MaxDur] :
            StartState([i \in 1..n |-> Task(NameOf[i], d[i], SetToSeq(g[i]))])

(* Dependency lists of at most two distinct names, possibly naming no      *)
(* record.                                                                 *)
DepLists(names) ==
    {<<>>} \cup {<<x>> : x \in names}
           \cup {<<p[1], p[2]>> : p \in {q \in names \X names : q[1] # q[2]}}

(* Arbitrary inputs: names may repeat, dependencies may name any record,   *)
(* the task itself or no record at all.                                    *)
Init ==
    \E n \in 0..MaxRecords :
        LET names == {NameOf[i] : i \in 1..n}
        IN  \E nm \in [1..n -> names], d \in [1..n -> 0..MaxDur],
               deps \in [1..n -> DepLists(names \cup {Ghost})] :
                StartState([i \in 1..n |-> Task(nm[i], d[i], deps[i])])

Spec == Init /\ [][Next]_vars

SpecDAG == InitDAG /\ [][Next]_vars

FairDAG == InitDAG /\ [][Next]_vars /\ WF_vars(Next)

----------------------------------------------------------------------------
(* Vocabulary of the properties *)

MaxOf(S) == CHOOSE x \in S : \A y \in S : y <= x

ForwardDone ==
    pc \in {"populateSuccessors", "updateAllLateVars", "updateAllSlack",
            "outputTaskCSV", "outputTimelineCSV", "exit"}

BackwardDone ==
    pc \in {"updateAllSlack", "outputTaskCSV", "outputTimelineCSV", "exit"}

SlackDone == pc \in {"outputTaskCSV", "outputTimelineCSV", "exit"}

NoOutput == outputCsv = <<>> /\ timelineCsv = <<>>

RECURSIVE Extend(_, _, _, _)
(* P holds <<i, s>> when some chain of dependency edges ends in task i and *)
(* its durations sum to s; the chains grow by k more edges of E.           *)
Extend(taskList, P, E, k) ==
    IF k = 0 THEN P
    ELSE Only({Extend(taskList, Q, E, k - 1) :
               Q \in {P \cup {<<x[2][2], x[1][2] + taskList[x[2][2]].duration>> :
                                x \in {y \in P \X E : y[1][1] = y[2][1]}}}})

(* The chains that start in a task of `starts' and stay in `allowed'. *)
ChainSums(taskList, E, starts, allowed) ==
    Extend(taskList,
           {<<i, taskList[i].duration>> : i \in starts \cap allowed},
           {e \in E : e[2] \in allowed},
           Len(taskList))

(* Length of the longest of the chains cs that ends in a dependency of     *)
(* task i.                                                                 *)
LongestBefore(cs, E, i) ==
    MaxOf({0} \cup {q[2] : q \in {c \in cs : <<c[1], i>> \in E}})

----------------------------------------------------------------------------
(* C1: on a valid DAG, after the backward pass every task without          *)
(* successors has LF equal to the project finish time, the maximum EF.     *)
C1_LeafLateFinishIsProjectFinish ==
    (BackwardDone /\ ValidDAG(tasks)) =>
        \A i \in Indices(tasks) :
            tasks[i].successors = <<>> =>
                tasks[i].LF = MaxOf({tasks[j].EF : j \in Indices(tasks)})

(* C2: a cyclic input ends in a CyclicDependency error reached before any  *)
(* timing pass evaluates a task, and nothing is output.                    *)
C2_CycleRejectedBeforeTiming ==
    (Cyclic(tasks) /\ pc # "updateAllEarlyVars") =>
        /\ err.what = "CyclicDependency"
        /\ evalsES = 0
        /\ NoOutput

(* C3: an input with a dependency that names no record is rejected with an *)
(* error that names the task and the missing dependency, and nothing is    *)
(* output.                                                                 *)
C3_UnresolvedRejectedNamingBoth ==
    (~Resolves(tasks) /\ pc # "updateAllEarlyVars") =>
        /\ pc = "terminate"
        /\ NoOutput
        /\ \E i \in Indices(tasks) :
              \E k \in 1..Len(tasks[i].dependencies) :
                /\ getTaskFromList(tasks[i].dependencies[k], tasks) = 0
                /\ {tasks[i].name, tasks[i].dependencies[k]} \subseteq err.names

(* C4: an input in which two records share a name is rejected with a       *)
(* DuplicateTask error before any traversal, and nothing is output.        *)
C4_DuplicateRejectedBeforeTraversal ==
    (~UniqueNames(tasks) /\ pc # "updateAllEarlyVars") =>
        /\ err.what = "DuplicateTask"
        /\ evalsES = 0
        /\ NoOutput

(* C5: on a valid DAG, after the forward pass every task has ES equal to   *)
(* the maximum EF of its dependencies (0 without any), EF = ES + duration, *)
(* and ES is the length of the longest dependency chain before the task.   *)
C5_ForwardPass ==
    (ForwardDone /\ ValidDAG(tasks)) =>
        \A E \in {Edges(tasks)} :
            \A cs \in {ChainSums(tasks, E, Indices(tasks), Indices(tasks))} :
                \A i \in Indices(tasks) :
                    /\ tasks[i].ES =
                          MaxOf({0} \cup {tasks[e[1]].EF :
                                            e \in {d \in E : d[2] = i}})
                    /\ tasks[i].EF = tasks[i].ES + tasks[i].duration
                    /\ tasks[i].ES = LongestBefore(cs, E, i)

C5_Witness ==
    /\ ForwardDone
    /\ \E i \in Indices(tasks) :
          /\ Len(tasks[i].dependencies) = 2
          /\ tasks[getTaskFromList(tasks[i].dependencies[1], tasks)].EF >
                tasks[getTaskFromList(tasks[i].dependencies[2], tasks)].EF
          /\ tasks[i].ES > 0

(* C6: on a valid DAG, after all passes every task has ES <= LS, EF <= LF  *)
(* and slack >= 0, with slack = LS - ES = LF - EF.                         *)
C6_SlackNonNegative ==
    (SlackDone /\ ValidDAG(tasks)) =>
        \A i \in Indices(tasks) :
            /\ tasks[i].ES <= tasks[i].LS
            /\ tasks[i].EF <= tasks[i].LF
            /\ tasks[i].slack >= 0
            /\ tasks[i].slack = tasks[i].LS - tasks[i].ES
            /\ tasks[i].slack = tasks[i].LF - tasks[i].EF

C6_Witness ==
    /\ SlackDone
    /\ \E i \in Indices(tasks) : tasks[i].slack > 0

(* C7: on a non-empty valid DAG, once the backward pass has run the        *)
(* project length equals the maximum EF and the maximum LF over all tasks. *)
C7_PassesAgreeOnProjectLength ==
    (BackwardDone /\ tasks # <<>> /\ ValidDAG(tasks)) =>
        /\ ProjectLength(tasks) = MaxOf({tasks[i].EF : i \in Indices(tasks)})
        /\ ProjectLength(tasks) = MaxOf({tasks[i].LF : i \in Indices(tasks)})

C7_Witness ==
    /\ BackwardDone
    /\ ProjectLength(tasks) > 0
    /\ \E i, j \in Indices(tasks) :
          /\ tasks[i].successors = <<>>
          /\ tasks[j].successors # <<>>
          /\ tasks[i].LF # tasks[j].LF

(* C8: on a non-empty valid DAG some task has slack 0, and a chain of      *)
(* dependency edges from a task without dependencies to a task without     *)
(* successors consists of slack-0 tasks only and its durations sum to the  *)
(* project finish time.                                                    *)
C8_CriticalChain ==
    (SlackDone /\ tasks # <<>> /\ ValidDAG(tasks)) =>
        /\ \E i \in Indices(tasks) : tasks[i].slack = 0
        /\ \E q \in ChainSums(tasks, Edges(tasks),
                    {i \in Indices(tasks) : /\ tasks[i].dependencies = <<>>
                                            /\ tasks[i].slack = 0},
                    {i \in Indices(tasks) : tasks[i].slack = 0}) :
              /\ tasks[q[1]].successors = <<>>
              /\ q[2] = MaxOf({tasks[i].EF : i \in Indices(tasks)})

C8_Witness ==
    /\ SlackDone
    /\ \E i \in Indices(tasks) : tasks[i].slack > 0
    /\ \E i \in Indices(tasks) :
          tasks[i].dependencies # <<>> /\ tasks[i].slack = 0 /\ tasks[i].ES > 0

(* C9: in each timing pass every task is evaluated once: the number of     *)
(* score evaluations of a pass equals the number of tasks.                 *)
C9_EvaluatedOncePerPass ==
    ValidDAG(tasks) =>
        /\ ForwardDone => evalsES = Len(tasks)
        /\ BackwardDone => evalsLF = Len(tasks)

(* What main() has assigned to every task when it stands at pc. *)
AssignedAt(stage) ==
    CASE stage = "updateAllEarlyVars" -> {}
      [] stage \in {"populateSuccessors", "updateAllLateVars"} -> {"ES", "EF"}
      [] stage = "updateAllSlack" -> {"ES", "EF", "LS", "LF"}
      [] stage \in {"outputTaskCSV", "outputTimelineCSV", "exit"} ->
            {"ES", "EF", "LS", "LF", "slack"}
      [] OTHER -> {"none"}

(* Every task's successors are the tasks that depend on it, once each. *)
SuccessorsPopulated ==
    \A E \in {Edges(tasks)} :
        \A i \in Indices(tasks) :
            /\ {tasks[i].successors[k] : k \in 1..Len(tasks[i].successors)} =
                  {tasks[e[2]].name : e \in {d \in E : d[1] = i}}
            /\ Len(tasks[i].successors) = Cardinality({d \in E : d[1] = i})

StagesInOrder ==
    /\ \A i \in Indices(tasks) : tasks[i].assigned = AssignedAt(pc)
    /\ pc = "updateAllLateVars" =>
          /\ SuccessorsPopulated
          /\ \A i \in Indices(tasks) : "EF" \in tasks[i].assigned
    /\ pc \in {"updateAllEarlyVars", "populateSuccessors"} =>
          \A i \in Indices(tasks) : tasks[i].successors = <<>>

Completed ==
    /\ pc = "exit"
    /\ \A i \in Indices(tasks) :
          tasks[i].assigned = {"ES", "EF", "LS", "LF", "slack"}
    /\ Len(outputCsv) = Len(tasks)

(* C10: on a valid input (the inputs of InitDAG) main() terminates; the     *)
(* stages run in the order forward pass, populateSuccessors, backward      *)
(* pass, slack; the backward pass starts only when every task has its EF;  *)
(* on completion every task has ES, EF, LS, LF and slack.                  *)
C10_RunsInOrderAndTerminates ==
    []StagesInOrder /\ <>Completed

C10_Witness ==
    /\ Completed
    /\ ValidDAG(tasks)
    /\ Len(tasks) >= 2
    /\ \E i \in Indices(tasks) : tasks[i].dependencies # <<>>

====
